---- MODULE Spec2Model ----
(***************************************************************************)
(* The country/exchange-rate cache of justinndidit/forex: the refresh      *)
(* pipeline of handler.HandleRefresh (fan-out of two fetches, decode, row  *)
(* building, the transactional merge of repository.UpdateCountries) and    *)
(* the read and delete endpoints that run against the same MySQL tables,   *)
(* the detached generateAndLogSummary goroutine that a successful refresh  *)
(* starts, and GET /countries/image, which serves the file it writes.      *)
(*                                                                         *)
(* What is abstracted, and how:                                            *)
(*  - strings come from a small alphabet of names; strings.ToLower and the *)
(*    utf8mb4_unicode_ci collation are tables over that alphabet;          *)
(*  - time is counted in whole seconds, the resolution of the TIMESTAMP    *)
(*    columns; every reading of the clock is later than the one before;    *)
(*  - rates and populations are integers chosen so that                    *)
(*    population * multiplier / rate is exact;                             *)
(*  - the AUTO_INCREMENT id column is left out;                            *)
(*  - every statement sent to the database may fail (a lost connection);   *)
(*    a failed Commit is taken not to have committed.                      *)
(***************************************************************************)
EXTENDS Integers, Sequences, FiniteSets, TLC

\* The horizon of a run: no refresh request is accepted once the clock has
\* passed it.
MaxClock == 4

\* repository.go:21 sets 1000; the model stages in chunks of 2 so that a
\* three-row batch is staged in two chunks.
batchSize == 2

\* The request handlers that can run HandleRefresh at the same time.
Refreshers == {"h1", "h2"}

countriesURL == "https://restcountries.com/v2/all?fields=name,capital,region,population,flag,currencies"
ratesURL == "https://open.er-api.com/v6/latest/USD"

Range(s) == {s[i] : i \in DOMAIN s}

-----------------------------------------------------------------------------
(* database/sql null wrappers *)

NullString(s, valid) == [String |-> s, Valid |-> valid]
NullFloat64(f, valid) == [Float64 |-> f, Valid |-> valid]
NullTime(t, valid) == [Time |-> t, Valid |-> valid]

\* What scanning an SQL NULL leaves in the wrapper.
NoString == NullString("", FALSE)
NoFloat == NullFloat64(0, FALSE)
NoTime == NullTime(0, FALSE)

-----------------------------------------------------------------------------
(* strings *)

\* strings.ToLower on the names, capitals, regions and codes of the model.
ToLower(s) ==
    CASE s = "France" -> "france"
      [] s = "FRANCE" -> "france"
      [] s = "Ghana" -> "ghana"
      [] s = "Antarctica" -> "antarctica"
      [] s = "Mars" -> "mars"
      [] s = "Paris" -> "paris"
      [] s = "Accra" -> "accra"
      [] s = "Europe" -> "europe"
      [] s = "Africa" -> "africa"
      [] s = "EUR" -> "eur"
      [] s = "GHS" -> "ghs"
      [] s = "XXX" -> "xxx"
      [] OTHER -> s

\* A binary collation: a string equals only itself.
BinaryWeight(s) == s

\* utf8mb4_unicode_ci, the collation of both tables and of the staging table:
\* strings that differ only in letter case have the same weight.
CollationWeight(s) == ToLower(s)

\* The order of names under the collation (ORDER BY name).
NameRank(s) ==
    LET w == CollationWeight(s)
    IN  CASE w = "" -> 0
          [] w = "antarctica" -> 1
          [] w = "france" -> 2
          [] w = "ghana" -> 3
          [] w = "mars" -> 4
          [] OTHER -> 5

-----------------------------------------------------------------------------
(* what the two sources can answer *)

Country(name, capital, region, population, flag, currencies) ==
    [Name |-> name, Capital |-> capital, Region |-> region,
     Population |-> population, FlagURL |-> flag, Currencies |-> currencies]

cFrance == Country("France", "Paris", "Europe", 4, "fr.svg", <<"EUR">>)
\* the same country under another spelling, its first currency unknown to
\* the rates source, its second known
cFRANCE == Country("FRANCE", "", "Europe", 6, "", <<"XXX", "EUR">>)
cGhana == Country("Ghana", "Accra", "Africa", 2, "gh.svg", <<"GHS">>)
cAntarctica == Country("Antarctica", "", "", 2, "", <<>>)

\* model.ExchangeRates: Rates is a Go map, nil when the payload has no
\* "rates" member (or has null), non-nil and empty for "rates": {}.
ExchangeRates(isNil, m) == [RatesIsNil |-> isNil, Rates |-> m]

NoEntries == [c \in {} |-> 0]
SomeRates == [c \in {"EUR", "GHS"} |-> IF c = "EUR" THEN 2 ELSE 1]

\* A response body: either bytes that do not decode into the expected shape,
\* or the value they decode to.
Undecodable == [decodes |-> FALSE, value |-> <<>>]
Body(v) == [decodes |-> TRUE, value |-> v]

CountriesBodies ==
    { Undecodable,
      Body(<<>>),
      Body(<<cFRANCE, cAntarctica>>),
      Body(<<cFrance, cFRANCE>>),
      Body(<<cFrance, cAntarctica, cFRANCE>>),
      Body(<<cGhana, cAntarctica, cFrance>>) }

RatesBodies ==
    { Undecodable,
      Body(ExchangeRates(TRUE, NoEntries)),
      Body(ExchangeRates(FALSE, NoEntries)),
      Body(ExchangeRates(FALSE, SomeRates)) }

\* util.RandFloatRange draws from [1000, 2000).
Multipliers == {1000, 1999}

\* The names the read and delete endpoints are called with.
NameInputs == {"France", "france", "Mars"}

-----------------------------------------------------------------------------
(* util.FetchData and the decoding loop of HandleRefresh *)

FetchResult(url, body, err) == [URL |-> url, Body |-> body, Err |-> err]

BodiesOf(url) == IF url = countriesURL THEN CountriesBodies ELSE RatesBodies

\* The three ways FetchData gives up.
FetchErrors == {"failed to fetch", "bad status", "failed to read body"}

\* Everything one FetchData(url) can send on the channel.
FetchOutcomes(url) ==
    {FetchResult(url, Undecodable, e) : e \in FetchErrors}
        \cup {FetchResult(url, b, "nil") : b \in BodiesOf(url)}

UnmarshalFailLabel(url) ==
    IF url = countriesURL THEN "countries API (unmarshal fail)"
    ELSE "exchange rate API (unmarshal fail)"

\* The handler's three locals before the loop: a nil slice, a zero
\* ExchangeRates (nil map), a nil list of failures.
NoResults ==
    [countriesList |-> <<>>,
     exchangeData |-> ExchangeRates(TRUE, NoEntries),
     failedURLs |-> <<>>]

\* One iteration of `for result := range resultChan`, only the first failure
\* kept: what the loop would do if it stopped at the first failure.
HandleResultFirstOnly(acc, result) ==
    IF acc.failedURLs # <<>> THEN acc
    ELSE IF result.Err # "nil"
    THEN [acc EXCEPT !.failedURLs = Append(@, result.URL)]
    ELSE IF ~result.Body.decodes
    THEN [acc EXCEPT !.failedURLs = Append(@, UnmarshalFailLabel(result.URL))]
    ELSE IF result.URL = countriesURL
    THEN [acc EXCEPT !.countriesList = result.Body.value]
    ELSE [acc EXCEPT !.exchangeData = result.Body.value]

\* One iteration of `for result := range resultChan`.
HandleResult(acc, result) ==
    IF result.Err # "nil"
    THEN [acc EXCEPT !.failedURLs = Append(@, result.URL)]
    ELSE IF ~result.Body.decodes
    THEN [acc EXCEPT !.failedURLs = Append(@, UnmarshalFailLabel(result.URL))]
    ELSE IF result.URL = countriesURL
    THEN [acc EXCEPT !.countriesList = result.Body.value]
    ELSE [acc EXCEPT !.exchangeData = result.Body.value]

RECURSIVE RangeOver(_, _)
\* The whole loop over the closed channel, in the order the results arrived.
RangeOver(ch, acc) ==
    IF ch = <<>> THEN acc ELSE RangeOver(Tail(ch), HandleResult(acc, Head(ch)))

\* The guard `len(countriesList) == 0 || exchangeData.Rates == nil`, with the
\* rates test widened to an empty map.
EmptyOrInvalidStrict(list, data) ==
    Len(list) = 0 \/ data.RatesIsNil \/ DOMAIN data.Rates = {}

\* The guard `len(countriesList) == 0 || exchangeData.Rates == nil`.
EmptyOrInvalid(list, data) == Len(list) = 0 \/ data.RatesIsNil

-----------------------------------------------------------------------------
(* building the candidate rows *)

\* A timestamp read again for every row (time.Now() inside the loop).
RowTimePerRow(refresh, i) == refresh + (i - 1)

\* LastRefreshedAt of the i-th row: the one refreshTime.
RowTime(refresh, i) == refresh

\* The else branch for a country without currencies, were it to estimate from
\* the population alone.
NoCurrencyGDPFromPopulation(country, multiplier) ==
    NullFloat64(country.Population * multiplier, TRUE)

\* The else branch for a country without currencies: estimated_gdp 0.
NoCurrencyGDP(country, multiplier) == NullFloat64(0, TRUE)

\* A row built from the first listed currency that the rates know, the first
\* listed one if they know none.
BuildRowAnyCurrency(country, rates, time, multiplier) ==
    LET hasCurrency == Len(country.Currencies) > 0
        known == {i \in DOMAIN country.Currencies :
                    country.Currencies[i] \in DOMAIN rates}
        code == IF ~hasCurrency THEN ""
                ELSE IF known = {} THEN country.Currencies[1]
                ELSE country.Currencies[CHOOSE i \in known : \A j \in known : i <= j]
        hasRate == hasCurrency /\ code \in DOMAIN rates
    IN  [Name |-> ToLower(country.Name),
         Capital |-> NullString(ToLower(country.Capital), country.Capital # ""),
         Region |-> NullString(ToLower(country.Region), country.Region # ""),
         Population |-> country.Population,
         CurrencyCode |-> IF hasCurrency THEN NullString(code, TRUE) ELSE NoString,
         ExchangeRate |->
            IF hasRate THEN NullFloat64(rates[code], TRUE) ELSE NoFloat,
         EstimatedGDP |->
            IF hasRate
            THEN NullFloat64((country.Population * multiplier) \div rates[code], TRUE)
            ELSE IF hasCurrency THEN NoFloat
            ELSE NullFloat64(0, TRUE),
         FlagURL |-> NullString(country.FlagURL, country.FlagURL # ""),
         LastRefreshedAt |-> NullTime(time, TRUE)]

\* model.CountryDBRow for one country of the list.
BuildRow(country, rates, time, multiplier) ==
    LET hasCurrency == Len(country.Currencies) > 0
        code == IF hasCurrency THEN country.Currencies[1] ELSE ""
        hasRate == hasCurrency /\ code \in DOMAIN rates
    IN  [Name |-> ToLower(country.Name),
         Capital |-> NullString(ToLower(country.Capital), country.Capital # ""),
         Region |-> NullString(ToLower(country.Region), country.Region # ""),
         Population |-> country.Population,
         CurrencyCode |-> IF hasCurrency THEN NullString(code, TRUE) ELSE NoString,
         ExchangeRate |->
            IF hasRate THEN NullFloat64(rates[code], TRUE) ELSE NoFloat,
         EstimatedGDP |->
            IF hasRate
            THEN NullFloat64((country.Population * multiplier) \div rates[code], TRUE)
            ELSE IF hasCurrency THEN NoFloat
            ELSE NoCurrencyGDP(country, multiplier),
         FlagURL |-> NullString(country.FlagURL, country.FlagURL # ""),
         LastRefreshedAt |-> NullTime(time, TRUE)]

\* rowsToInsert: one row per country, in the order of the list.
BuildRows(list, rates, refresh, multipliers) ==
    [i \in 1..Len(list) |->
        BuildRow(list[i], rates, RowTime(refresh, i), multipliers[i])]

-----------------------------------------------------------------------------
(* the database *)

\* Two names collide on a UNIQUE or PRIMARY KEY (name) when the collation
\* gives them the same weight.
SameName(a, b) == CollationWeight(a) = CollationWeight(b)

\* The migration's seed row: INSERT IGNORE INTO app_status VALUES (1, NULL).
SeedStatus == {[id |-> 1, last_refreshed_at |-> NoTime]}

\* An update that keeps the stored value where the staged one is NULL
\* (col = COALESCE(VALUES(col), col)).
OnDuplicateKeyKeepNonNull(old, new) ==
    [old EXCEPT !.Capital = IF new.Capital.Valid THEN new.Capital ELSE @,
                !.Region = IF new.Region.Valid THEN new.Region ELSE @,
                !.Population = new.Population,
                !.CurrencyCode = IF new.CurrencyCode.Valid THEN new.CurrencyCode ELSE @,
                !.ExchangeRate = IF new.ExchangeRate.Valid THEN new.ExchangeRate ELSE @,
                !.EstimatedGDP = IF new.EstimatedGDP.Valid THEN new.EstimatedGDP ELSE @,
                !.FlagURL = IF new.FlagURL.Valid THEN new.FlagURL ELSE @,
                !.LastRefreshedAt = new.LastRefreshedAt]

\* ON DUPLICATE KEY UPDATE: every listed column takes the staged value; the
\* name (the key) is not in the list and stays.
OnDuplicateKeyUpdate(old, new) ==
    [old EXCEPT !.Capital = new.Capital,
                !.Region = new.Region,
                !.Population = new.Population,
                !.CurrencyCode = new.CurrencyCode,
                !.ExchangeRate = new.ExchangeRate,
                !.EstimatedGDP = new.EstimatedGDP,
                !.FlagURL = new.FlagURL,
                !.LastRefreshedAt = new.LastRefreshedAt]

\* A merge that makes the table a copy of the staged rows.
ReplaceWithTemp(table, temp) == temp

\* INSERT INTO countries SELECT * FROM temp_countries ON DUPLICATE KEY UPDATE.
MergeFromTemp(table, temp) ==
    {row \in table : \A t \in temp : ~SameName(row.Name, t.Name)}
        \cup {OnDuplicateKeyUpdate(row, t) :
                <<row, t>> \in {p \in table \X temp : SameName(p[1].Name, p[2].Name)}}
        \cup {t \in temp : \A row \in table : ~SameName(row.Name, t.Name)}

\* UPDATE app_status SET last_refreshed_at = ? WHERE id = 1.
UpdateStatusRow(status, time) ==
    {IF row.id = 1 THEN [row EXCEPT !.last_refreshed_at = NullTime(time, TRUE)]
     ELSE row : row \in status}

\* A staging table without a key on name: no insert collides.
NoKey(temp, batch) == FALSE

\* A multi-row INSERT into temp_countries violates PRIMARY KEY (name) when two
\* of its rows, or one of them and a staged row, have the same name.
DuplicateKey(temp, batch) ==
    \/ \E i, j \in DOMAIN batch : i # j /\ SameName(batch[i].Name, batch[j].Name)
    \/ \E i \in DOMAIN batch : \E t \in temp : SameName(batch[i].Name, t.Name)

Min(a, b) == IF a < b THEN a ELSE b

-----------------------------------------------------------------------------
(* state *)

VARIABLES
    countries,      \* the countries table, committed rows
    app_status,     \* the app_status table, committed rows
    clock,          \* what the next time.Now() returns
    pc,             \* where each refresh handler is
    running,        \* the FetchData goroutines that have not called wg.Done
    resultChan,     \* the buffered channel of fetch results
    countriesList,  \* handler local
    exchangeData,   \* handler local
    refreshTime,    \* handler local
    rowsToInsert,   \* handler local, then UpdateCountries' argument
    tx,             \* the open transaction of UpdateCountries
    w,              \* the response written by the step just taken
    logged,         \* the error or warning logged by the step just taken
    summaries,      \* the generateAndLogSummary goroutines that have not returned
    summaryPng      \* the file cache/summary.png

db == <<countries, app_status>>
locals == <<countriesList, exchangeData, refreshTime, rowsToInsert>>
projector == <<summaries, summaryPng>>
vars == <<countries, app_status, clock, pc, running, resultChan,
          countriesList, exchangeData, refreshTime, rowsToInsert, tx, w, logged,
          summaries, summaryPng>>

\* No transaction: nothing staged, nothing written.
NoTx == [temp_countries |-> {}, i |-> 1, merged |-> FALSE, status |-> FALSE]

NoResponse == [handler |-> "", arg |-> <<>>, status |-> 0, body |-> <<>>]
Response(handler, arg, status, body) ==
    [handler |-> handler, arg |-> arg, status |-> status, body |-> body]

\* util.WriteJsonError's envelope; details is nil (<<>>) or the parts of the
\* detail text.
ErrorResponse(message, details) == [error |-> message, details |-> details]

\* cache/summary.png before the first summary: the file does not exist.
NoFile == [exists |-> FALSE, data |-> <<>>]

InitHandlers ==
    /\ clock = 1
    /\ pc = [r \in Refreshers |-> "idle"]
    /\ running = [r \in Refreshers |-> {}]
    /\ resultChan = [r \in Refreshers |-> <<>>]
    /\ countriesList = [r \in Refreshers |-> <<>>]
    /\ exchangeData = [r \in Refreshers |-> ExchangeRates(TRUE, NoEntries)]
    /\ refreshTime = [r \in Refreshers |-> 0]
    /\ rowsToInsert = [r \in Refreshers |-> <<>>]
    /\ tx = [r \in Refreshers |-> NoTx]
    /\ w = NoResponse
    /\ logged = ""
    /\ summaries = {}
    /\ summaryPng = NoFile

\* The database as the migration leaves it: no countries, the seed status row.
Init ==
    /\ countries = {}
    /\ app_status = SeedStatus
    /\ InitHandlers

\* A database whose app_status table lacks the row with id 1.
InitMissingStatus ==
    /\ countries = {}
    /\ app_status = {}
    /\ InitHandlers

-----------------------------------------------------------------------------
(* handler.HandleRefresh *)

Silent == w' = NoResponse /\ logged' = ""

\* The handler returns: its locals and its transaction are gone.
Return(r) ==
    /\ pc' = [pc EXCEPT ![r] = "idle"]
    /\ countriesList' = [countriesList EXCEPT ![r] = <<>>]
    /\ exchangeData' = [exchangeData EXCEPT ![r] = ExchangeRates(TRUE, NoEntries)]
    /\ refreshTime' = [refreshTime EXCEPT ![r] = 0]
    /\ rowsToInsert' = [rowsToInsert EXCEPT ![r] = <<>>]
    /\ tx' = [tx EXCEPT ![r] = NoTx]

Goto(r, label) == pc' = [pc EXCEPT ![r] = label]

\* wg.Add(2) and the two `go util.FetchData`.
StartRefresh(r) ==
    /\ pc[r] = "idle"
    /\ clock <= MaxClock
    /\ Goto(r, "wg.Wait")
    /\ running' = [running EXCEPT ![r] = {countriesURL, ratesURL}]
    /\ resultChan' = [resultChan EXCEPT ![r] = <<>>]
    /\ Silent
    /\ UNCHANGED <<db, clock, locals, tx, projector>>

\* A channel with room for one result.
resultChanCapOne == 1

\* make(chan util.FetchResult, 2)
resultChanCap == 2

\* A send on the buffered channel goes through while the buffer has room;
\* nothing receives before wg.Wait has returned.
CanSend(ch) == Len(ch) < resultChanCap

\* One goroutine of util.FetchData: http.Get has ended in one of its four
\* ways, then exactly one send, then the deferred wg.Done.
FetchData(r, url, result) ==
    /\ url \in running[r]
    /\ result.URL = url
    /\ CanSend(resultChan[r])
    /\ resultChan' = [resultChan EXCEPT ![r] = Append(@, result)]
    /\ logged' = IF result.Err = "nil" THEN "" ELSE result.Err
    /\ running' = [running EXCEPT ![r] = @ \ {url}]
    /\ w' = NoResponse
    /\ UNCHANGED <<db, clock, pc, locals, tx, projector>>

\* A wait that ends with the first result on the channel.
JoinedOnFirst(r) == pc[r] = "wg.Wait" /\ resultChan[r] # <<>>

\* wg.Wait has returned and the channel is closed.
Joined(r) == pc[r] = "wg.Wait" /\ running[r] = {}

\* The locals after the loop over the results.
Collected(r) == RangeOver(resultChan[r], NoResults)

\* len(failedURLs) > 0: 503 with every failure in the detail.
RefreshFetchFailed(r) ==
    /\ Joined(r)
    /\ Collected(r).failedURLs # <<>>
    /\ w' = Response("HandleRefresh", <<>>, 503,
                     ErrorResponse("External data source unavailable",
                                   <<"Could not fetch data from: ">>
                                       \o Collected(r).failedURLs))
    /\ logged' = "Failed to fetch from API"
    /\ resultChan' = [resultChan EXCEPT ![r] = <<>>]
    /\ Return(r)
    /\ UNCHANGED <<db, clock, running, projector>>

\* Both decoded, but the list is empty or the rates map is nil: 503.
RefreshEmptyData(r) ==
    /\ Joined(r)
    /\ Collected(r).failedURLs = <<>>
    /\ EmptyOrInvalid(Collected(r).countriesList, Collected(r).exchangeData)
    /\ w' = Response("HandleRefresh", <<>>, 503,
                     ErrorResponse("External data source unavailable",
                                   <<"API returned empty or invalid data">>))
    /\ logged' = "API returned empty or invalid data"
    /\ resultChan' = [resultChan EXCEPT ![r] = <<>>]
    /\ Return(r)
    /\ UNCHANGED <<db, clock, running, projector>>

\* refreshTime := time.Now(), then one row per country; the handler is about
\* to call UpdateCountries. Building the rows takes time: the clock has moved
\* on by a second per row when the loop ends.
RefreshBuildRows(r, multipliers) ==
    /\ Joined(r)
    /\ Collected(r).failedURLs = <<>>
    /\ ~EmptyOrInvalid(Collected(r).countriesList, Collected(r).exchangeData)
    /\ countriesList' = [countriesList EXCEPT ![r] = Collected(r).countriesList]
    /\ exchangeData' = [exchangeData EXCEPT ![r] = Collected(r).exchangeData]
    /\ refreshTime' = [refreshTime EXCEPT ![r] = clock]
    /\ clock' = clock + Len(Collected(r).countriesList)
    /\ DOMAIN multipliers = DOMAIN Collected(r).countriesList
    /\ rowsToInsert' = [rowsToInsert EXCEPT ![r] =
            BuildRows(Collected(r).countriesList, Collected(r).exchangeData.Rates,
                      clock, multipliers)]
    /\ resultChan' = [resultChan EXCEPT ![r] = <<>>]
    /\ Goto(r, "BeginTx")
    /\ Silent
    /\ UNCHANGED <<db, running, tx, projector>>

-----------------------------------------------------------------------------
(* repository.UpdateCountries, called by HandleRefresh *)

\* What the other sessions see of a table after a statement that was run on
\* the pool (autocommit) wrote `written`: the write.
ExecOnPool(committed, written) == written

\* What the other sessions see of a table after tx.ExecContext wrote
\* `written` (the merge): still the committed rows.
ExecMergeInTx(committed, written) == committed

\* What the other sessions see of a table after tx.ExecContext wrote
\* `written` (the status update): still the committed row.
ExecStatusInTx(committed, written) == committed

\* UpdateCountries returned err (the deferred tx.Rollback undoes the
\* transaction) and HandleRefresh answers 500.
UpdateFailed(r, message) ==
    /\ logged' = message
    /\ w' = Response("HandleRefresh", <<>>, 500,
                     ErrorResponse("Internal server error", <<>>))
    /\ Return(r)
    /\ UNCHANGED <<clock, running, resultChan, projector>>

\* A statement went through: on to the next one.
Executed(r, label) ==
    /\ Goto(r, label)
    /\ Silent
    /\ UNCHANGED <<clock, running, resultChan, locals, projector>>

\* r.db.Pool.BeginTx
BeginTx(r) ==
    /\ pc[r] = "BeginTx"
    /\ UNCHANGED db
    /\ \/ UpdateFailed(r, "Failed to begin transaction")
       \/ Executed(r, "DropTemp") /\ UNCHANGED tx

\* DROP TEMPORARY TABLE IF EXISTS temp_countries
DropTemp(r) ==
    /\ pc[r] = "DropTemp"
    /\ UNCHANGED db
    /\ \/ UpdateFailed(r, "Failed to drop old temporary table")
       \/ Executed(r, "CreateTemp") /\ UNCHANGED tx

\* CREATE TEMPORARY TABLE temp_countries; with no rows the insert loop is
\* skipped.
CreateTemp(r) ==
    /\ pc[r] = "CreateTemp"
    /\ UNCHANGED db
    /\ \/ UpdateFailed(r, "Failed to create temporary table")
       \/ /\ Executed(r, IF Len(rowsToInsert[r]) = 0 THEN "Merge" ELSE "InsertBatch")
          /\ tx' = [tx EXCEPT ![r].temp_countries = {}, ![r].i = 1]

\* One turn of the loop: INSERT INTO temp_countries VALUES (...),(...) for
\* rowsToInsert[i:end].
InsertBatch(r) ==
    /\ pc[r] = "InsertBatch"
    /\ UNCHANGED db
    /\ LET i == tx[r].i
           end == Min(i + batchSize - 1, Len(rowsToInsert[r]))
           batch == SubSeq(rowsToInsert[r], i, end)
       IN  \/ UpdateFailed(r, "Failed to bulk insert batch to temp table")
           \/ /\ ~DuplicateKey(tx[r].temp_countries, batch)
              /\ Executed(r, IF end = Len(rowsToInsert[r]) THEN "Merge"
                             ELSE "InsertBatch")
              /\ tx' = [tx EXCEPT ![r].temp_countries = @ \cup Range(batch),
                                  ![r].i = end + 1]

\* The rows another open transaction has written are locked: a statement of
\* r that writes one of them waits.
RowsLockedByOther(r, names) ==
    \E other \in Refreshers \ {r} :
        /\ tx[other].merged
        /\ \E t \in tx[other].temp_countries : \E n \in names : SameName(t.Name, n)

\* The status row is locked by another open transaction that has updated it.
StatusLockedByOther(r) ==
    \E other \in Refreshers \ {r} : tx[other].status /\ app_status # {}

\* INSERT INTO countries SELECT * FROM temp_countries ON DUPLICATE KEY UPDATE
MergeTemp(r) ==
    /\ pc[r] = "Merge"
    /\ \/ UpdateFailed(r, "Failed to merge from temp table") /\ UNCHANGED db
       \/ /\ ~RowsLockedByOther(r, {t.Name : t \in tx[r].temp_countries})
          /\ Executed(r, "UpdateStatus")
          /\ tx' = [tx EXCEPT ![r].merged = TRUE]
          /\ countries' = ExecMergeInTx(countries,
                              MergeFromTemp(countries, tx[r].temp_countries))
          /\ UNCHANGED app_status

\* UPDATE app_status SET last_refreshed_at = ? WHERE id = 1
UpdateStatus(r) ==
    /\ pc[r] = "UpdateStatus"
    /\ \/ UpdateFailed(r, "Failed to update app_status") /\ UNCHANGED db
       \/ /\ ~StatusLockedByOther(r)
          /\ Executed(r, "Commit")
          /\ tx' = [tx EXCEPT ![r].status = TRUE]
          /\ app_status' = ExecStatusInTx(app_status,
                              UpdateStatusRow(app_status, refreshTime[r]))
          /\ UNCHANGED countries

\* `go h.generateAndLogSummary(context.Background(), refreshTime)`: the new
\* goroutine, about to run its first statement.
GoSummary(time) ==
    [refreshTime |-> time, pc |-> "GetTotalCountries", total |-> 0,
     top5 |-> <<>>, written |-> 0]

\* tx.Commit: the writes of the transaction become the committed rows;
\* HandleRefresh starts the summary goroutine and answers 200.
Commit(r) ==
    /\ pc[r] = "Commit"
    /\ \/ UpdateFailed(r, "Failed to update database") /\ UNCHANGED db
       \/ /\ countries' = MergeFromTemp(countries, tx[r].temp_countries)
          /\ app_status' = UpdateStatusRow(app_status, refreshTime[r])
          /\ w' = Response("HandleRefresh", <<>>, 200,
                           [message |-> "Database refresh successfully initiated"])
          /\ logged' = ""
          /\ summaries' = summaries \cup {GoSummary(refreshTime[r])}
          /\ Return(r)
          /\ UNCHANGED <<clock, running, resultChan, summaryPng>>

\* A row that an open transaction has written is locked until it ends.
Locked(name) ==
    \E r \in Refreshers :
        tx[r].merged /\ \E t \in tx[r].temp_countries : SameName(t.Name, name)

-----------------------------------------------------------------------------
(* model: the JSON views *)

\* A pointer field of a response: nil (<<>>) or the value pointed to.
Nil == <<>>
Ptr(v) == <<v>>

\* CountryDBRow.ToResponse
ToResponse(row) ==
    [name |-> row.Name,
     capital |-> IF row.Capital.Valid THEN Ptr(row.Capital.String) ELSE Nil,
     region |-> IF row.Region.Valid THEN Ptr(row.Region.String) ELSE Nil,
     population |-> row.Population,
     currency_code |->
        IF row.CurrencyCode.Valid THEN Ptr(row.CurrencyCode.String) ELSE Nil,
     exchange_rate |->
        IF row.ExchangeRate.Valid THEN Ptr(row.ExchangeRate.Float64) ELSE Nil,
     estimated_gdp |->
        IF row.EstimatedGDP.Valid THEN Ptr(row.EstimatedGDP.Float64) ELSE Nil,
     flag_url |-> IF row.FlagURL.Valid THEN Ptr(row.FlagURL.String) ELSE Nil,
     last_refreshed_at |->
        IF row.LastRefreshedAt.Valid THEN Ptr(row.LastRefreshedAt.Time) ELSE Nil]

\* model.ToCountryResponses
ToCountryResponses(rows) == [i \in DOMAIN rows |-> ToResponse(rows[i])]

\* Stats.ToResponse
StatsToResponse(stats) ==
    [total_countries |-> stats.TotalCountries,
     last_refreshed_at |->
        IF stats.LastRefreshedAt.Valid THEN Ptr(stats.LastRefreshedAt.Time)
        ELSE Nil]

-----------------------------------------------------------------------------
(* repository: the reads and the delete *)

\* ORDER BY terms: an expression over the row and a direction.
Term(expr, dir) == [expr |-> expr, dir |-> dir]

\* The ORDER BY of GetCountries with NULLs last in both GDP orders.
orderByClauseNullsLast(SortKey) ==
    CASE SortKey = "gdp_desc" ->
            <<Term("estimated_gdp IS NULL", "ASC"), Term("estimated_gdp", "DESC")>>
      [] SortKey = "gdp_asc" ->
            <<Term("estimated_gdp IS NULL", "ASC"), Term("estimated_gdp", "ASC")>>
      [] SortKey = "population_desc" -> <<Term("population", "DESC")>>
      [] SortKey = "population_asc" -> <<Term("population", "ASC")>>
      [] SortKey = "name_desc" -> <<Term("name", "DESC")>>
      [] OTHER -> <<Term("name", "ASC")>>

\* The ORDER BY of GetCountries with a default that is not name ascending.
orderByClauseOtherDefault(SortKey) ==
    CASE SortKey = "gdp_desc" ->
            <<Term("estimated_gdp IS NULL", "ASC"), Term("estimated_gdp", "DESC")>>
      [] SortKey = "gdp_asc" ->
            <<Term("estimated_gdp IS NULL", "DESC"), Term("estimated_gdp", "ASC")>>
      [] SortKey = "population_desc" -> <<Term("population", "DESC")>>
      [] SortKey = "population_asc" -> <<Term("population", "ASC")>>
      [] SortKey = "name_desc" -> <<Term("name", "DESC")>>
      [] SortKey = "name_asc" -> <<Term("name", "ASC")>>
      [] OTHER -> <<Term("population", "DESC")>>

\* The switch on filters.SortKey in GetCountries.
orderByClause(SortKey) ==
    CASE SortKey = "gdp_desc" ->
            <<Term("estimated_gdp IS NULL", "ASC"), Term("estimated_gdp", "DESC")>>
      [] SortKey = "gdp_asc" ->
            <<Term("estimated_gdp IS NULL", "DESC"), Term("estimated_gdp", "ASC")>>
      [] SortKey = "population_desc" -> <<Term("population", "DESC")>>
      [] SortKey = "population_asc" -> <<Term("population", "ASC")>>
      [] SortKey = "name_desc" -> <<Term("name", "DESC")>>
      [] OTHER -> <<Term("name", "ASC")>>

\* The value MySQL sorts a row by under one expression. NULL sorts below
\* every number; no estimated_gdp is negative.
SortValue(expr, row) ==
    CASE expr = "estimated_gdp IS NULL" ->
            IF row.EstimatedGDP.Valid THEN 0 ELSE 1
      [] expr = "estimated_gdp" ->
            IF row.EstimatedGDP.Valid THEN row.EstimatedGDP.Float64 ELSE -1
      [] expr = "population" -> row.Population
      [] OTHER -> NameRank(row.Name)

RECURSIVE ComesBefore(_, _, _)
\* a must come before b under the ORDER BY terms (they are not tied).
ComesBefore(a, b, terms) ==
    IF terms = <<>> THEN FALSE
    ELSE LET t == Head(terms)
             va == SortValue(t.expr, a)
             vb == SortValue(t.expr, b)
         IN  IF va = vb THEN ComesBefore(a, b, Tail(terms))
             ELSE IF t.dir = "ASC" THEN va < vb ELSE va > vb

\* Every order in which MySQL may return the rows: tied rows come in any
\* order.
Ordered(rows, terms) ==
    {s \in [1..Cardinality(rows) -> rows] :
        /\ \A i, j \in DOMAIN s : i # j => s[i] # s[j]
        /\ \A i, j \in DOMAIN s : i < j => ~ComesBefore(s[j], s[i], terms)}

\* model.CountryFilters from the query string: an empty parameter is no
\* filter, an empty sort is "name_asc".
CountryFilters(region, currency, sort) ==
    [Region |-> IF region # "" THEN Ptr(region) ELSE Nil,
     Currency |-> IF currency # "" THEN Ptr(currency) ELSE Nil,
     SortKey |-> IF sort = "" THEN "name_asc" ELSE sort]

\* `column = ?` on a nullable string column: NULL matches nothing, and the
\* comparison is the collation's.
ColumnEquals(column, value) ==
    column.Valid /\ CollationWeight(column.String) = CollationWeight(value)

\* A WHERE clause that joins the filters with OR.
WhereAny(row, filters) ==
    /\ filters.Region # Nil \/ filters.Currency # Nil =>
        \/ filters.Region # Nil /\ ColumnEquals(row.Region, filters.Region[1])
        \/ filters.Currency # Nil
            /\ ColumnEquals(row.CurrencyCode, filters.Currency[1])

\* The WHERE clause of GetCountries.
Where(row, filters) ==
    /\ filters.Region # Nil => ColumnEquals(row.Region, filters.Region[1])
    /\ filters.Currency # Nil => ColumnEquals(row.CurrencyCode, filters.Currency[1])

\* GetCountries: the result lists the query may return.
GetCountries(table, filters) ==
    Ordered({row \in table : Where(row, filters)}, orderByClause(filters.SortKey))

\* WHERE name = ? under a binary collation.
MatchesNameBinary(row, name) == BinaryWeight(row.Name) = BinaryWeight(name)

\* WHERE name = ? of GetCountryByName and DeleteByName.
MatchesName(row, name) == SameName(row.Name, name)

\* GetStats: both scalar subqueries in one statement; the second is NULL when
\* app_status has no row with id 1.
GetStats(table, status) ==
    [TotalCountries |-> Cardinality(table),
     LastRefreshedAt |->
        IF \E row \in status : row.id = 1
        THEN (CHOOSE row \in status : row.id = 1).last_refreshed_at
        ELSE NoTime]

-----------------------------------------------------------------------------
(* handler: the read and delete endpoints *)

\* The query strings GET /countries is called with: region, currency, sort.
QueryInputs ==
    { <<"", "", "">>,
      <<"", "", "gdp_asc">>,
      <<"", "", "gdp_desc">>,
      <<"Europe", "", "gdp_asc">>,
      <<"", "", "bogus">>,
      <<"", "eur", "population_desc">>,
      <<"europe", "EUR", "name_desc">> }

InternalServerError == ErrorResponse("Internal server error", <<>>)
CountryNotFound == ErrorResponse("Country not found", <<>>)

\* A request that touches no handler of a refresh and writes nothing.
ReadOnly ==
    UNCHANGED <<db, clock, pc, running, resultChan, locals, tx, projector>>

\* GET /countries
HandleGetCountry(query) ==
    /\ ReadOnly
    /\ \/ /\ w' = Response("HandleGetCountry", query, 500, InternalServerError)
          /\ logged' = "Failed to query countries"
       \/ \E rows \in GetCountries(countries,
                                   CountryFilters(query[1], query[2], query[3])) :
            /\ w' = Response("HandleGetCountry", query, 200, ToCountryResponses(rows))
            /\ logged' = IF Len(rows) < 1 THEN "Database is empty" ELSE ""

\* GET /countries/{name}
HandleGetCountryByName(name) ==
    /\ ReadOnly
    /\ \/ /\ w' = Response("HandleGetCountryByName", name, 500, InternalServerError)
          /\ logged' = "Failed to scan row"
       \/ /\ \A row \in countries : ~MatchesName(row, name)
          /\ w' = Response("HandleGetCountryByName", name, 404, CountryNotFound)
          /\ logged' = "No country found"
       \/ \E row \in countries :
            /\ MatchesName(row, name)
            /\ w' = Response("HandleGetCountryByName", name, 200, ToResponse(row))
            /\ logged' = ""

\* GET /status
HandleStatus ==
    /\ ReadOnly
    /\ \/ /\ w' = Response("HandleStatus", <<>>, 500, InternalServerError)
          /\ logged' = "Failed to scan stats row"
       \/ /\ w' = Response("HandleStatus", <<>>, 200,
                           StatsToResponse(GetStats(countries, app_status)))
          /\ logged' = ""

\* DeleteByName with zero rows affected answering as a fault.
NoRowsAffectedAsFault == 500

\* DeleteByName with zero rows affected: errs.ErrNotFound, answered 404.
NoRowsAffected == 404

\* DELETE /countries/{name}. The statement waits for a row that an open
\* transaction has written.
HandleDeleteCountryByName(name) ==
    /\ ~Locked(name)
    /\ UNCHANGED <<app_status, clock, pc, running, resultChan, locals, tx,
                   projector>>
    /\ \/ /\ w' = Response("HandleDeleteCountryByName", name, 500, InternalServerError)
          /\ logged' = "Delete query failed!"
          /\ UNCHANGED countries
       \/ /\ \A row \in countries : ~MatchesName(row, name)
          /\ w' = Response("HandleDeleteCountryByName", name, NoRowsAffected,
                           IF NoRowsAffected = 404 THEN CountryNotFound
                           ELSE InternalServerError)
          /\ logged' = ""
          /\ UNCHANGED countries
       \/ /\ \E row \in countries : MatchesName(row, name)
          /\ countries' = {row \in countries : ~MatchesName(row, name)}
          /\ w' = Response("HandleDeleteCountryByName", name, 204, <<>>)
          /\ logged' = ""

-----------------------------------------------------------------------------
(* handler.generateAndLogSummary, the detached goroutine *)

\* A failure that starts the goroutine over.
LogAndRetry(goroutines, g) == (goroutines \ {g}) \cup {GoSummary(g.refreshTime)}

\* `h.logger.Error()...; return`: the goroutine is gone and nothing starts
\* it again.
LogAndReturn(goroutines, g) == goroutines \ {g}

\* The goroutine g moves on as `next`.
Continue(goroutines, g, next) == (goroutines \ {g}) \cup {next}

\* A step of the goroutine: it touches no table, no handler and writes no
\* response.
Detached ==
    /\ w' = NoResponse
    /\ UNCHANGED <<db, clock, pc, running, resultChan, locals, tx>>

\* The first `limit` rows of a result list.
Limit(rows, limit) == SubSeq(rows, 1, Min(limit, Len(rows)))

\* GetTop5ByGDP: ORDER BY estimated_gdp IS NULL ASC, estimated_gdp DESC
\* LIMIT 5; every list the query may return.
GetTop5ByGDP(table) ==
    {Limit(rows, 5) :
        rows \in Ordered(table, <<Term("estimated_gdp IS NULL", "ASC"),
                                  Term("estimated_gdp", "DESC")>>)}

\* total, err := h.repo.GetTotalCountries(ctx)
SummaryGetTotal(g) ==
    /\ g.pc = "GetTotalCountries"
    /\ Detached
    /\ UNCHANGED summaryPng
    /\ \/ /\ summaries' = LogAndReturn(summaries, g)
          /\ logged' = "ImageGen: Failed to get total countries"
       \/ /\ summaries' = Continue(summaries, g,
                [g EXCEPT !.total = Cardinality(countries), !.pc = "GetTop5ByGDP"])
          /\ logged' = ""

\* top5, err := h.repo.GetTop5ByGDP(ctx)
SummaryGetTop5(g) ==
    /\ g.pc = "GetTop5ByGDP"
    /\ Detached
    /\ UNCHANGED summaryPng
    /\ \/ /\ summaries' = LogAndReturn(summaries, g)
          /\ logged' = "ImageGen: Failed to get top 5 countries by GDP"
       \/ \E rows \in GetTop5ByGDP(countries) :
            /\ summaries' = Continue(summaries, g,
                    [g EXCEPT !.top5 = rows, !.pc = "GenerateSummary"])
            /\ logged' = ""

-----------------------------------------------------------------------------
(* util.ImageService.GenerateSummary and the file cache/summary.png *)

\* What is drawn: the three arguments of GenerateSummary. The footer's
\* "Generated on" time is left out.
Image(totalCountries, topCountries, time) ==
    [totalCountries |-> totalCountries,
     topCountries |-> [i \in DOMAIN topCountries |->
                          <<topCountries[i].Name, topCountries[i].EstimatedGDP>>],
     refreshTime |-> time]

\* png.Encode writes the encoded image to the file in several writes: the
\* header first, the pixel data and the end marker after it.
PngParts == <<"IHDR", "IDAT">>

\* The k-th write of the encoding of an image.
Part(image, k) == [image |-> image, part |-> PngParts[k]]

\* What a file holds where nothing was written (a hole after a truncation).
Hole == [image |-> <<>>, part |-> ""]

\* os.Create(path): the file exists and is truncated to length 0.
Create(file) == [exists |-> TRUE, data |-> <<>>]

\* A write of one part at the writer's own offset k.
WriteAt(file, k, part) ==
    [file EXCEPT !.data =
        [i \in 1..(IF Len(@) < k THEN k ELSE Len(@)) |->
            IF i = k THEN part ELSE IF i <= Len(@) THEN @[i] ELSE Hole]]

\* err = h.imgGen.GenerateSummary(total, top5, refreshTime), up to and
\* including the os.Create of dc.SavePNG(summaryPath).
SummaryGenerate(g) ==
    /\ g.pc = "GenerateSummary"
    /\ Detached
    /\ \/ /\ summaries' = LogAndReturn(summaries, g)
          /\ logged' = "Failed to create cache directory"
          /\ UNCHANGED summaryPng
       \/ /\ summaries' = LogAndReturn(summaries, g)
          /\ logged' = "Failed to save summary image"
          /\ UNCHANGED summaryPng
       \/ /\ summaries' = Continue(summaries, g, [g EXCEPT !.pc = "png.Encode"])
          /\ summaryPng' = Create(summaryPng)
          /\ logged' = ""

\* One write of png.Encode inside dc.SavePNG; after the last one the file is
\* closed and GenerateSummary returns nil.
SummaryEncode(g) ==
    /\ g.pc = "png.Encode"
    /\ Detached
    /\ \/ /\ summaries' = LogAndReturn(summaries, g)
          /\ logged' = "Failed to save summary image"
          /\ UNCHANGED summaryPng
       \/ /\ summaryPng' =
                WriteAt(summaryPng, g.written + 1,
                        Part(Image(g.total, g.top5, g.refreshTime), g.written + 1))
          /\ IF g.written + 1 = Len(PngParts)
             THEN /\ summaries' = summaries \ {g}
                  /\ logged' = "Summary image generated successfully"
             ELSE /\ summaries' = Continue(summaries, g,
                        [g EXCEPT !.written = g.written + 1])
                  /\ logged' = ""

\* GET /countries/image: os.Stat, then http.ServeFile sends what the file
\* holds.
HandleGetImage ==
    /\ ReadOnly
    /\ \/ /\ ~summaryPng.exists
          /\ w' = Response("HandleGetImage", <<>>, 404,
                           ErrorResponse("Summary image not found", <<>>))
          /\ logged' = "Summary image not found at path: cache/summary.png"
       \/ /\ w' = Response("HandleGetImage", <<>>, 500, InternalServerError)
          /\ logged' = "Failed to stat image file: cache/summary.png"
       \/ /\ summaryPng.exists
          /\ w' = Response("HandleGetImage", <<>>, 200, summaryPng.data)
          /\ logged' = ""

-----------------------------------------------------------------------------
(* the system *)

\* HandleRefresh with the sources answering from `sources` and
\* util.RandFloatRange drawing from `multiplierSet`.
RefreshFrom(r, sources, multiplierSet) ==
    \/ StartRefresh(r)
    \/ \E url \in {countriesURL, ratesURL} :
        \E result \in sources[url] : FetchData(r, url, result)
    \/ RefreshFetchFailed(r)
    \/ RefreshEmptyData(r)
    \/ \E n \in 1..3 : \E multipliers \in [1..n -> multiplierSet] :
        RefreshBuildRows(r, multipliers)
    \/ BeginTx(r)
    \/ DropTemp(r)
    \/ CreateTemp(r)
    \/ InsertBatch(r)
    \/ MergeTemp(r)
    \/ UpdateStatus(r)
    \/ Commit(r)

\* Everything the two sources can answer.
AllOutcomes == [url \in {countriesURL, ratesURL} |-> FetchOutcomes(url)]

Refresh(r) == RefreshFrom(r, AllOutcomes, Multipliers)

\* The steps of the summary goroutines.
Summary ==
    \E g \in summaries :
        \/ SummaryGetTotal(g)
        \/ SummaryGetTop5(g)
        \/ SummaryGenerate(g)
        \/ SummaryEncode(g)

\* The request path: one refresh at a time, the reads and the delete. The
\* summary goroutines it starts take their steps in NextSummary; they write
\* neither a table nor a response.
Next ==
    \/ Refresh("h1")
    \/ \E query \in QueryInputs : HandleGetCountry(query)
    \/ \E name \in NameInputs : HandleGetCountryByName(name)
    \/ HandleStatus
    \/ \E name \in NameInputs : HandleDeleteCountryByName(name)

Spec == Init /\ [][Next]_vars

\* The same program on a database without the status row.
SpecMissingStatus == InitMissingStatus /\ [][Next]_vars

\* Sources that answer a good payload or fail: the countries source with an
\* empty list, the rates source with a bad status.
FewOutcomes ==
    [url \in {countriesURL, ratesURL} |->
        IF url = countriesURL
        THEN {FetchResult(url, Body(<<>>), "nil"),
              FetchResult(url, Body(<<cFRANCE, cAntarctica>>), "nil"),
              FetchResult(url, Body(<<cGhana, cAntarctica, cFrance>>), "nil")}
        ELSE {FetchResult(url, Undecodable, "bad status"),
              FetchResult(url, Body(ExchangeRates(FALSE, SomeRates)), "nil")}]

\* Refreshes one at a time, the summary goroutines they start, deletes, and
\* readers of the image.
NextSummary ==
    \/ RefreshFrom("h1", FewOutcomes, {1000})
    \/ Summary
    \/ HandleDeleteCountryByName("France")
    \/ HandleGetImage

SpecSummary == Init /\ [][NextSummary]_vars

\* Two refresh requests handled at the same time.
NextOverlap ==
    \/ \E r \in Refreshers : RefreshFrom(r, FewOutcomes, {1000})
    \/ HandleStatus

SpecOverlap == Init /\ [][NextOverlap]_vars

\* Every way FetchData can end, for each source: the three errors, and a
\* body read in full (an empty list or a list of two for the countries).
FanOutOutcomes ==
    [url \in {countriesURL, ratesURL} |->
        {FetchResult(url, Undecodable, e) : e \in FetchErrors}
            \cup (IF url = countriesURL
                  THEN {FetchResult(url, Body(<<>>), "nil"),
                        FetchResult(url, Body(<<cFRANCE, cAntarctica>>), "nil")}
                  ELSE {FetchResult(url, Body(ExchangeRates(FALSE, SomeRates)),
                                    "nil")})]

\* Two refresh requests handled at the same time.
NextFanOut == \E r \in Refreshers : RefreshFrom(r, FanOutOutcomes, {1000})

\* The Go scheduler runs every goroutine that can run: a fetch whose HTTP
\* exchange has ended sends its result, and a handler whose wait has returned
\* goes on. FetchEnds is the step of one fetch goroutine.
FetchEnds(r, url) ==
    /\ running' = [running EXCEPT ![r] = @ \ {url}]
    /\ \E result \in FanOutOutcomes[url] : FetchData(r, url, result)

\* The handler after wg.Wait: close, the loop over the results, and on to
\* its answer or to UpdateCountries.
WaitReturns(r) ==
    \/ /\ pc' = [pc EXCEPT ![r] = "idle"]
       /\ (RefreshFetchFailed(r) \/ RefreshEmptyData(r))
    \/ /\ pc' = [pc EXCEPT ![r] = "BeginTx"]
       /\ \E n \in 1..3 : \E multipliers \in [1..n -> {1000}] :
            RefreshBuildRows(r, multipliers)

SpecFanOut ==
    /\ Init
    /\ [][NextFanOut]_vars
    /\ \A r \in Refreshers :
        /\ \A url \in {countriesURL, ratesURL} : WF_vars(FetchEnds(r, url))
        /\ WF_vars(WaitReturns(r))

-----------------------------------------------------------------------------
(* properties *)

\* The labels of a handler that is inside UpdateCountries.
TxLabels ==
    {"BeginTx", "DropTemp", "CreateTemp", "InsertBatch", "Merge", "UpdateStatus",
     "Commit"}

\* The step is one of handler r inside UpdateCountries.
UpdateStep(r) == pc[r] \in TxLabels /\ (pc'[r] # pc[r] \/ tx'[r] # tx[r])

\* The step is the one in which handler r answers 200.
Succeeds(r) ==
    pc[r] = "Commit" /\ pc'[r] = "idle" /\ w'.handler = "HandleRefresh"
        /\ w'.status = 200

\* The table after the step holds the whole batch of r and, of the rows it
\* held before, exactly those the batch does not name, untouched.
FullyNew(r) ==
    /\ \A i \in DOMAIN rowsToInsert[r] : rowsToInsert[r][i] \in countries'
    /\ \A row \in countries :
        (\A i \in DOMAIN rowsToInsert[r] : rowsToInsert[r][i].Name # row.Name)
            => row \in countries'
    /\ countries' \subseteq countries \cup Range(rowsToInsert[r])
    /\ \A s \in app_status' :
        s.id = 1 => s.last_refreshed_at = NullTime(refreshTime[r], TRUE)

\* C1: UpdateCountries is all-or-nothing. No step of it changes the committed
\* countries or app_status rows except the commit that succeeds, and that one
\* leaves the fully new state; so a call that fails at staging, at the merge
\* or at the status update leaves both tables as they were.
C1_MergeAllOrNothing ==
    [][\A r \in Refreshers :
        UpdateStep(r) =>
            IF Succeeds(r) THEN FullyNew(r)
            ELSE UNCHANGED <<countries, app_status>>]_vars

\* A call failed at the status update, after staging and merging into a table
\* that already held rows.
C1_Witness ==
    /\ w.handler = "HandleRefresh"
    /\ w.status = 500
    /\ logged = "Failed to update app_status"
    /\ countries # {}

\* The timestamps a response shows.
ObservedTimes(response) ==
    CASE response.handler = "HandleGetCountry" ->
            UNION {Range(response.body[i].last_refreshed_at) :
                        i \in DOMAIN response.body}
      [] response.handler = "HandleGetCountryByName" ->
            Range(response.body.last_refreshed_at)
      [] response.handler = "HandleStatus" ->
            Range(response.body.last_refreshed_at)
      [] OTHER -> {}

\* C2: a reader never observes a partly merged batch. While a transaction is
\* open none of its writes is in the committed rows; the committed rows and
\* the status go together (no row is newer than the status); and a read
\* answered while the transaction is open shows nothing of it.
C2_NoPartialRead ==
    /\ \A r \in Refreshers :
        pc[r] \in TxLabels =>
            /\ \A row \in countries : row.LastRefreshedAt.Time # refreshTime[r]
            /\ \A s \in app_status : s.last_refreshed_at.Time # refreshTime[r]
            /\ w.status = 200 => refreshTime[r] \notin ObservedTimes(w)
    /\ \A row \in countries : \A s \in app_status :
        s.last_refreshed_at.Valid
            /\ row.LastRefreshedAt.Time <= s.last_refreshed_at.Time

\* GET /status is answered while a transaction that has staged, merged and
\* updated the status is waiting to commit over an older dataset.
C2_Witness ==
    /\ \E r \in Refreshers : pc[r] = "Commit" /\ tx[r].merged /\ tx[r].status
    /\ w.handler = "HandleStatus"
    /\ w.status = 200
    /\ countries # {}

\* In a result list: every row without estimated_gdp after every row with one.
NullsAfter(body) ==
    \A i, j \in DOMAIN body :
        body[i].estimated_gdp = Nil /\ body[j].estimated_gdp # Nil => j < i

\* In a result list: every row without estimated_gdp before every row with
\* one.
NullsBefore(body) ==
    \A i, j \in DOMAIN body :
        body[i].estimated_gdp = Nil /\ body[j].estimated_gdp # Nil => i < j

Ascending(body) ==
    \A i, j \in DOMAIN body :
        i < j /\ body[i].estimated_gdp # Nil /\ body[j].estimated_gdp # Nil
            => body[i].estimated_gdp[1] <= body[j].estimated_gdp[1]

Descending(body) ==
    \A i, j \in DOMAIN body :
        i < j /\ body[i].estimated_gdp # Nil /\ body[j].estimated_gdp # Nil
            => body[i].estimated_gdp[1] >= body[j].estimated_gdp[1]

GdpQueryAnswered(sort) ==
    w.handler = "HandleGetCountry" /\ w.status = 200 /\ w.arg[3] = sort

\* C3 as claimed: for gdp_asc and for gdp_desc the rows without estimated_gdp
\* come after all rows with one, and the rows with one are ascending,
\* respectively descending.
C3_NullsLastBothOrders ==
    /\ GdpQueryAnswered("gdp_asc") => NullsAfter(w.body) /\ Ascending(w.body)
    /\ GdpQueryAnswered("gdp_desc") => NullsAfter(w.body) /\ Descending(w.body)

\* C3 as the code has it: gdp_desc lists the rows with estimated_gdp
\* descending and then the rows without; gdp_asc lists the rows without
\* estimated_gdp first and then the rows with one, ascending.
C3_NullsLastDescFirstAsc ==
    /\ GdpQueryAnswered("gdp_asc") => NullsBefore(w.body) /\ Ascending(w.body)
    /\ GdpQueryAnswered("gdp_desc") => NullsAfter(w.body) /\ Descending(w.body)

\* A gdp_asc answer with a row without estimated_gdp and two rows with
\* different ones.
C3_Witness ==
    /\ GdpQueryAnswered("gdp_asc")
    /\ \E i, j, k \in DOMAIN w.body :
        /\ w.body[i].estimated_gdp = Nil
        /\ w.body[j].estimated_gdp # Nil
        /\ w.body[k].estimated_gdp # Nil
        /\ w.body[j].estimated_gdp # w.body[k].estimated_gdp


\* C4 as claimed: a refresh whose rates payload decodes to no mapping or to
\* an empty mapping, or whose country list is empty, never gets as far as the
\* merge.
C4_EmptyRatesAbort ==
    \A r \in Refreshers :
        pc[r] \in TxLabels =>
            /\ Len(countriesList[r]) > 0
            /\ ~exchangeData[r].RatesIsNil
            /\ DOMAIN exchangeData[r].Rates # {}

\* The sources whose fetch failed or whose payload does not decode.
FailingSources(ch) ==
    {ch[i].URL : i \in {j \in DOMAIN ch : ch[j].Err # "nil" \/ ~ch[j].Body.decodes}}

\* The detail names the source: by its URL (fetch) or by its label (decode).
Names(details, url) ==
    url \in Range(details) \/ UnmarshalFailLabel(url) \in Range(details)

\* C5: when a fetch fails or a payload does not decode, the handler leaves
\* the barrier straight to one 503 whose detail names every failing source,
\* the merge is not entered and the tables are untouched.
C5_AllFailuresReported ==
    [][\A r \in Refreshers :
        Joined(r) /\ pc'[r] # pc[r] /\ FailingSources(resultChan[r]) # {} =>
            /\ pc'[r] = "idle"
            /\ UNCHANGED <<countries, app_status>>
            /\ w'.handler = "HandleRefresh"
            /\ w'.status = 503
            /\ \A url \in FailingSources(resultChan[r]) : Names(w'.body.details, url)
            /\ Len(w'.body.details) = 1 + Cardinality(FailingSources(resultChan[r]))]_vars

\* A 503 that names two failing sources.
C5_Witness ==
    /\ w.handler = "HandleRefresh"
    /\ w.status = 503
    /\ Len(w.body.details) = 3
    /\ Names(w.body.details, countriesURL)
    /\ Names(w.body.details, ratesURL)

\* C6: every row of a batch carries the one refreshTime read before the rows
\* were built, staged rows included, and the refresh that succeeds leaves
\* that same time on every row it wrote and on app_status.
C6_OneTimestamp ==
    [][\A r \in Refreshers :
        /\ pc'[r] \in TxLabels =>
            /\ refreshTime'[r] < clock'
            /\ \A i \in DOMAIN rowsToInsert'[r] :
                rowsToInsert'[r][i].LastRefreshedAt = NullTime(refreshTime'[r], TRUE)
            /\ \A t \in tx'[r].temp_countries :
                t.LastRefreshedAt = NullTime(refreshTime'[r], TRUE)
        /\ Succeeds(r) =>
            /\ \A i \in DOMAIN rowsToInsert[r] : \E row \in countries' :
                /\ row.Name = rowsToInsert[r][i].Name
                /\ row.LastRefreshedAt = NullTime(refreshTime[r], TRUE)
            /\ \A s \in app_status' :
                s.last_refreshed_at = NullTime(refreshTime[r], TRUE)]_vars

\* A batch of three rows, staged in two chunks, is about to be committed.
C6_Witness ==
    \E r \in Refreshers :
        /\ pc[r] = "Commit"
        /\ Len(rowsToInsert[r]) = 3
        /\ Cardinality(tx[r].temp_countries) = 3

\* C7 as claimed: a refresh that reports success leaves its timestamp
\* recorded in app_status.
C7_SuccessRecordsTimestamp ==
    [][\A r \in Refreshers :
        Succeeds(r) =>
            \E s \in app_status' :
                s.last_refreshed_at = NullTime(refreshTime[r], TRUE)]_vars

\* C8: a row without currency_code has no exchange_rate, and its
\* estimated_gdp is absent or 0; in a batch the 0 is that of a country that
\* lists no currency.
C8_NoCurrencyNoRate ==
    /\ \A row \in countries :
        ~row.CurrencyCode.Valid =>
            /\ ~row.ExchangeRate.Valid
            /\ ~row.EstimatedGDP.Valid \/ row.EstimatedGDP.Float64 = 0
    /\ \A r \in Refreshers : \A i \in DOMAIN rowsToInsert[r] :
        ~rowsToInsert[r][i].CurrencyCode.Valid =>
            /\ ~rowsToInsert[r][i].ExchangeRate.Valid
            /\ \/ ~rowsToInsert[r][i].EstimatedGDP.Valid
               \/ /\ rowsToInsert[r][i].EstimatedGDP.Float64 = 0
                  /\ Len(countriesList[r][i].Currencies) = 0

\* A stored row of a country that lists no currency, beside a row with a
\* currency and a rate.
C8_Witness ==
    /\ \E row \in countries :
        ~row.CurrencyCode.Valid /\ row.EstimatedGDP = NullFloat64(0, TRUE)
    /\ \E row \in countries : row.CurrencyCode.Valid /\ row.ExchangeRate.Valid

\* The step answers GET or DELETE /countries/{name}, and the statement ran.
ByNameAnswered(handler, name) ==
    /\ w'.handler = handler
    /\ w'.arg = name
    /\ logged' \notin {"Failed to scan row", "Delete query failed!"}

\* C9: lookups and deletes by name do not depend on letter case. For a row
\* stored under the canonical name n, a lookup with any spelling of n answers
\* 200 with that row and a delete with any spelling of n removes that row.
C9_NameCaseInsensitive ==
    [][\A row \in countries : \A name \in NameInputs :
        ToLower(name) = row.Name =>
            /\ ByNameAnswered("HandleGetCountryByName", name) =>
                w'.status = 200 /\ w'.body = ToResponse(row)
            /\ ByNameAnswered("HandleDeleteCountryByName", name) =>
                w'.status = 204 /\ row \notin countries']_vars

\* The row stored as "france" was looked up as "France".
C9_Witness ==
    /\ w.handler = "HandleGetCountryByName"
    /\ w.arg = "France"
    /\ w.status = 200
    /\ w.body.name = "france"

\* C10: a delete whose statement ran answers 404 and changes nothing when no
\* row has the name; when a row has it, it answers 204, removes that row and
\* nothing else, leaves app_status alone, and a lookup of the name then
\* finds nothing.
C10_DeleteOutcome ==
    [][\A name \in NameInputs :
        ByNameAnswered("HandleDeleteCountryByName", name) =>
            LET hit == {row \in countries : ToLower(name) = row.Name}
            IN  /\ app_status' = app_status
                /\ hit = {} => w'.status = 404 /\ countries' = countries
                /\ hit # {} =>
                    /\ w'.status = 204
                    /\ Cardinality(hit) = 1
                    /\ countries' = countries \ hit
                    /\ \A row \in countries' : ToLower(name) # row.Name]_vars

\* A delete answered 204 and left another row in the table.
C10_Witness ==
    /\ w.handler = "HandleDeleteCountryByName"
    /\ w.status = 204
    /\ countries # {}

\* The goroutines that are about to run their first statement.
Started(goroutines) == {g \in goroutines : g.pc = "GetTotalCountries"}

\* What generateAndLogSummary and GenerateSummary log when they give up.
SummaryFailures ==
    {"ImageGen: Failed to get total countries",
     "ImageGen: Failed to get top 5 countries by GDP",
     "Failed to create cache directory",
     "Failed to save summary image"}

\* C11: the summary goroutine is started by the step that commits and answers
\* 200, and by no other step (not by a refresh that answers 503 or 500, not
\* by a goroutine that failed); the 200 is written while that goroutine has
\* not run a statement yet; a step of a goroutine writes no response and
\* changes no table and no handler; and a goroutine that logs a failure is
\* gone for good.
C11_SummaryDetached ==
    [][/\ \A r \in Refreshers :
            Succeeds(r) =>
                /\ GoSummary(refreshTime[r]) \in summaries' \ summaries
                /\ w'.status = 200
       /\ Started(summaries') \ Started(summaries) # {} =>
            \E r \in Refreshers :
                /\ Succeeds(r)
                /\ summaries' = summaries \cup {GoSummary(refreshTime[r])}
       /\ w'.handler = "HandleRefresh" /\ w'.status # 200 =>
            summaries' = summaries
       /\ summaries' # summaries /\ (\A r \in Refreshers : ~Succeeds(r)) =>
            /\ w' = NoResponse
            /\ UNCHANGED <<countries, app_status, pc, tx>>
       /\ logged' \in SummaryFailures =>
            /\ summaries' \subseteq summaries
            /\ Cardinality(summaries') = Cardinality(summaries) - 1]_vars

\* A summary goroutine has failed at its second read, after the refresh that
\* started it had committed and answered.
C11_Witness ==
    /\ logged = "ImageGen: Failed to get top 5 countries by GDP"
    /\ summaries = {}
    /\ \E s \in app_status : s.last_refreshed_at.Valid

\* The results in the other arrival order.
Reverse(ch) == [i \in DOMAIN ch |-> ch[Len(ch) + 1 - i]]

\* What a refresh makes of its results, whatever their order: the sources
\* that failed, the decoded list and the decoded rates.
Outcome(acc) ==
    [failed |-> Range(acc.failedURLs),
     countriesList |-> acc.countriesList,
     exchangeData |-> acc.exchangeData]

\* C12: while a fetch of its refresh is still running the handler stays at
\* the barrier and answers nothing; when it leaves the barrier both results
\* are on the channel, and the step it takes (the abort with its reason, or
\* the decoded inputs and the batch built from them) is the one the other
\* arrival order of the same two results gives.
C12_FetchBarrier ==
    [][\A r \in Refreshers :
        pc[r] = "wg.Wait" =>
            /\ running[r] # {} =>
                /\ pc'[r] = "wg.Wait"
                /\ w'.handler # "HandleRefresh"
                /\ rowsToInsert'[r] = rowsToInsert[r]
            /\ pc'[r] # "wg.Wait" =>
                LET ch == resultChan[r]
                    other == RangeOver(Reverse(ch), NoResults)
                IN  /\ Len(ch) = 2
                    /\ {ch[1].URL, ch[2].URL} = {countriesURL, ratesURL}
                    /\ Outcome(RangeOver(ch, NoResults)) = Outcome(other)
                    /\ pc'[r] \in {"idle", "BeginTx"}
                    /\ pc'[r] = "idle" =>
                        /\ w'.status = 503
                        /\ Range(w'.body.details) =
                            IF other.failedURLs # <<>>
                            THEN {"Could not fetch data from: "}
                                    \cup Range(other.failedURLs)
                            ELSE {"API returned empty or invalid data"}
                    /\ pc'[r] = "BeginTx" =>
                        /\ other.failedURLs = <<>>
                        /\ countriesList'[r] = other.countriesList
                        /\ exchangeData'[r] = other.exchangeData
                        /\ rowsToInsert'[r] \in
                            {BuildRows(other.countriesList, other.exchangeData.Rates,
                                       refreshTime'[r], m) :
                                m \in [DOMAIN other.countriesList -> Multipliers]}]_vars

\* The rates fetch failed and arrived first, the countries payload arrived
\* second and did not decode: the 503 names them in that order.
C12_Witness ==
    /\ w.handler = "HandleRefresh"
    /\ w.status = 503
    /\ w.body.details =
        <<"Could not fetch data from: ", ratesURL, "countries API (unmarshal fail)">>

\* What the handler r that returns in this step had fetched: the failures,
\* the decoded list and the decoded rates.
Fetched(r) ==
    IF pc[r] = "wg.Wait" THEN RangeOver(resultChan[r], NoResults)
    ELSE [countriesList |-> countriesList[r],
          exchangeData |-> exchangeData[r],
          failedURLs |-> <<>>]

\* A fetch or a decode failed, or the content is empty or invalid: an empty
\* country list, no rates mapping or an empty one.
Unavailable(fetched) ==
    \/ fetched.failedURLs # <<>>
    \/ EmptyOrInvalidStrict(fetched.countriesList, fetched.exchangeData)

\* C13 as claimed: a refresh answers 503 exactly when a fetch or decode
\* failed or the decoded content was empty or invalid, 500 exactly when the
\* inputs were valid and the store failed, 200 exactly when the merge
\* committed; with 503 and 500 the tables are unchanged.
C13_RefreshOutcomeClasses ==
    [][\A r \in Refreshers :
        pc[r] # "idle" /\ pc'[r] = "idle" =>
            /\ w'.handler = "HandleRefresh"
            /\ w'.status \in {200, 500, 503}
            /\ w'.status = 503 <=> Unavailable(Fetched(r))
            /\ w'.status = 500 <=>
                /\ ~Unavailable(Fetched(r))
                /\ pc[r] \in TxLabels
                /\ UNCHANGED <<countries, app_status>>
            /\ w'.status = 200 <=>
                /\ pc[r] = "Commit"
                /\ \A i \in DOMAIN rowsToInsert[r] : rowsToInsert[r][i] \in countries'
            /\ w'.status # 200 => UNCHANGED <<countries, app_status>>]_vars

\* The sort keys GetCountries knows.
SortKeys ==
    {"name_asc", "name_desc", "population_asc", "population_desc", "gdp_asc",
     "gdp_desc"}

\* The sort parameter is absent or none of the known keys.
NoSortKey(sort) == sort \notin SortKeys

\* C14: for a query whose sort parameter is absent or unknown the store
\* returns what it returns for name_asc, which is some list; and the 200
\* that answers such a query is that list, its rows ascending by name.
C14_UnknownSortIsNameAsc ==
    /\ \A query \in QueryInputs :
        NoSortKey(query[3]) =>
            /\ GetCountries(countries, CountryFilters(query[1], query[2], query[3]))
                = GetCountries(countries,
                               CountryFilters(query[1], query[2], "name_asc"))
            /\ GetCountries(countries, CountryFilters(query[1], query[2], query[3]))
                # {}
    /\ w.handler = "HandleGetCountry" /\ w.status = 200 /\ NoSortKey(w.arg[3]) =>
        /\ w.body \in
            {ToCountryResponses(rows) :
                rows \in GetCountries(countries,
                                      CountryFilters(w.arg[1], w.arg[2], "name_asc"))}
        /\ \A i, j \in DOMAIN w.body :
            i < j => NameRank(w.body[i].name) < NameRank(w.body[j].name)

\* A query with an unknown sort key was answered with three rows.
C14_Witness ==
    /\ w.handler = "HandleGetCountry"
    /\ w.status = 200
    /\ w.arg[3] = "bogus"
    /\ Len(w.body) = 3

\* Equal as the store compares text: letter case apart.
SameText(a, b) == ToLower(a) = ToLower(b)

\* The stored row satisfies the filters of the query string: an empty
\* parameter asks for nothing; a row without the column value satisfies no
\* filter on it.
Satisfies(row, query) ==
    /\ query[1] # "" => row.Region.Valid /\ SameText(row.Region.String, query[1])
    /\ query[2] # "" =>
        row.CurrencyCode.Valid /\ SameText(row.CurrencyCode.String, query[2])

\* C15: the 200 of GET /countries lists each stored row that satisfies every
\* given filter once, and no other row; with no filter, every stored row. And
\* GET /countries, whatever it answers, leaves the tables as they are.
C15_QueryFilters ==
    /\ [](w.handler = "HandleGetCountry" /\ w.status = 200 =>
            LET hits == {row \in countries : Satisfies(row, w.arg)}
            IN  /\ Range(w.body) = {ToResponse(row) : row \in hits}
                /\ Len(w.body) = Cardinality(hits)
                /\ w.arg[1] = "" /\ w.arg[2] = "" =>
                    Len(w.body) = Cardinality(countries))
    /\ [][w'.handler = "HandleGetCountry" =>
            UNCHANGED <<countries, app_status>>]_vars

\* A query for a region and a currency was answered with the one row of
\* three that has both.
C15_Witness ==
    /\ w.handler = "HandleGetCountry"
    /\ w.status = 200
    /\ w.arg[1] = "europe"
    /\ w.arg[2] = "EUR"
    /\ Len(w.body) = 1
    /\ Cardinality(countries) = 3

\* The columns of a row other than its key.
NonKey(row) ==
    <<row.Capital, row.Region, row.Population, row.CurrencyCode, row.ExchangeRate,
      row.EstimatedGDP, row.FlagURL, row.LastRefreshedAt>>

\* C16: the merge that commits upserts by name. Each batch row is afterwards
\* stored under its name with every non-key column as in the batch, NULLs
\* included, whether the name was stored before or not; there is one row per
\* name; and every stored row is either a batch row or a row that was stored
\* before and is unchanged, never a mix of the two.
C16_UpsertByName ==
    [][\A r \in Refreshers :
        Succeeds(r) =>
            /\ \A i \in DOMAIN rowsToInsert[r] :
                \E row \in countries' :
                    /\ row.Name = rowsToInsert[r][i].Name
                    /\ NonKey(row) = NonKey(rowsToInsert[r][i])
            /\ \A a, b \in countries' : a.Name = b.Name => a = b
            /\ \A row \in countries' :
                \/ row \in countries
                      /\ \A i \in DOMAIN rowsToInsert[r] :
                            rowsToInsert[r][i].Name # row.Name
                \/ \E i \in DOMAIN rowsToInsert[r] :
                      NonKey(row) = NonKey(rowsToInsert[r][i])
                          /\ row.Name = rowsToInsert[r][i].Name]_vars

\* A transaction has merged, and is about to commit, a row without capital,
\* flag and rate over a stored row of the same name that has all three, while
\* a third stored row is not in its batch.
C16_Witness ==
    \E r \in Refreshers :
        /\ pc[r] = "Commit"
        /\ tx[r].merged
        /\ \E old \in countries : \E t \in tx[r].temp_countries :
            /\ old.Name = t.Name
            /\ old.Capital.Valid /\ ~t.Capital.Valid
            /\ old.FlagURL.Valid /\ ~t.FlagURL.Valid
            /\ old.ExchangeRate.Valid /\ ~t.ExchangeRate.Valid
        /\ \E old \in countries : \A t \in tx[r].temp_countries : old.Name # t.Name

\* C17: in every batch the row of a country that lists currencies has the
\* first listed code; when the rates know that code the row has its rate and
\* an estimated_gdp; when they do not, the code is kept and both are NULL,
\* whatever the rates know of the other listed currencies. And no row, in a
\* batch or stored, has an exchange_rate without a currency_code.
C17_FirstCurrencyOnly ==
    /\ \A r \in Refreshers : \A i \in DOMAIN rowsToInsert[r] :
        LET country == countriesList[r][i]
            row == rowsToInsert[r][i]
            rates == exchangeData[r].Rates
        IN  /\ Len(country.Currencies) > 0 =>
                /\ row.CurrencyCode = NullString(country.Currencies[1], TRUE)
                /\ country.Currencies[1] \in DOMAIN rates =>
                    /\ row.ExchangeRate =
                        NullFloat64(rates[country.Currencies[1]], TRUE)
                    /\ row.EstimatedGDP.Valid
                /\ country.Currencies[1] \notin DOMAIN rates =>
                    /\ row.ExchangeRate = NoFloat
                    /\ row.EstimatedGDP = NoFloat
            /\ row.ExchangeRate.Valid => row.CurrencyCode.Valid
    /\ \A row \in countries : row.ExchangeRate.Valid => row.CurrencyCode.Valid

\* A batch built while the rates know EUR holds the row of a country that
\* lists XXX before EUR: the code XXX, no rate, no estimated_gdp.
C17_Witness ==
    \E r \in Refreshers : \E i \in DOMAIN rowsToInsert[r] :
        /\ "EUR" \in DOMAIN exchangeData[r].Rates
        /\ countriesList[r][i].Currencies = <<"XXX", "EUR">>
        /\ rowsToInsert[r][i].CurrencyCode = NullString("XXX", TRUE)
        /\ ~rowsToInsert[r][i].ExchangeRate.Valid
        /\ ~rowsToInsert[r][i].EstimatedGDP.Valid

\* The bytes are the whole encoding of one image.
Complete(data) ==
    /\ Len(data) = Len(PngParts)
    /\ \A k \in DOMAIN data : data[k] = Part(data[1].image, k)

\* C18 as claimed: whatever the summary goroutines are doing, a reader of
\* GET /countries/image that is sent the file is sent a complete image.
C18_ReaderSeesWholeArtifact ==
    w.handler = "HandleGetImage" /\ w.status = 200 => Complete(w.body)

\* C19 as claimed: the count, the top rows and the refresh time that a
\* goroutine hands to GenerateSummary are those of one committed state of the
\* store. In such a state the top list has as many rows as the count says (up
\* to five) and no row is newer than the recorded refresh time.
C19_ConsistentSummaryInputs ==
    \A g \in summaries :
        g.pc = "GenerateSummary" =>
            /\ Len(g.top5) = Min(g.total, 5)
            /\ \A i \in DOMAIN g.top5 :
                g.top5[i].LastRefreshedAt.Time <= g.refreshTime

\* C20 as claimed: the recorded refresh time never moves backwards.
C20_StatusNeverMovesBack ==
    [][\A before \in app_status : \A after \in app_status' :
        before.last_refreshed_at.Valid =>
            /\ after.last_refreshed_at.Valid
            /\ after.last_refreshed_at.Time >= before.last_refreshed_at.Time]_vars

\* The names of the batch of handler r.
BatchNames(r) == {rowsToInsert[r][i].Name : i \in DOMAIN rowsToInsert[r]}

\* C21: a refresh never removes rows. The merge that commits leaves every
\* stored row whose name is not in its batch exactly as it was, does not
\* lower the row count, and leaves a row for every name of its batch, also
\* one that a delete had removed; no other step of a refresh changes the
\* table. Every stored row carries the time of a refresh that committed, at
\* most the recorded refresh time.
C21_RefreshKeepsRows ==
    /\ [][\A r \in Refreshers :
            /\ Succeeds(r) =>
                /\ \A row \in countries :
                    row.Name \notin BatchNames(r) => row \in countries'
                /\ Cardinality(countries') >= Cardinality(countries)
                /\ \A name \in BatchNames(r) :
                    \E row \in countries' : row.Name = name
            /\ (pc'[r] # pc[r] \/ tx'[r] # tx[r]) /\ ~Succeeds(r) =>
                countries' = countries]_vars
    /\ [](\A row \in countries : \A s \in app_status :
            /\ row.LastRefreshedAt.Valid
            /\ s.last_refreshed_at.Valid
            /\ row.LastRefreshedAt.Time <= s.last_refreshed_at.Time)

\* A refresh has committed and answered 200 while the table holds a row that
\* was not in its batch: the row still carries the older refresh time.
C21_Witness ==
    /\ w.handler = "HandleRefresh"
    /\ w.status = 200
    /\ \E row \in countries : \E s \in app_status :
        row.LastRefreshedAt.Time < s.last_refreshed_at.Time

\* Two entries of the fetched list have the same name after case-folding.
DuplicateNames(list) ==
    \E i, j \in DOMAIN list : i # j /\ ToLower(list[i].Name) = ToLower(list[j].Name)

\* C22: a refresh whose country list has two entries with the same
\* case-folded name never gets past staging; the staged rows are always
\* exactly the batch rows inserted so far, none dropped or replaced; and when
\* such a refresh returns it answers 500 and both tables are as they were.
C22_DuplicateNamesFail ==
    /\ [](\A r \in Refreshers :
            /\ pc[r] \in {"Merge", "UpdateStatus", "Commit"} =>
                ~DuplicateNames(countriesList[r])
            /\ pc[r] \in {"InsertBatch", "Merge", "UpdateStatus", "Commit"} =>
                /\ Cardinality(tx[r].temp_countries) = tx[r].i - 1
                /\ tx[r].temp_countries =
                    {rowsToInsert[r][i] : i \in 1..(tx[r].i - 1)})
    /\ [][\A r \in Refreshers :
            pc[r] \in TxLabels /\ DuplicateNames(countriesList[r])
                /\ pc'[r] = "idle" =>
                    /\ w'.handler = "HandleRefresh"
                    /\ w'.status = 500
                    /\ UNCHANGED <<countries, app_status>>]_vars

\* The first chunk of a batch is staged and the second chunk, about to be
\* inserted, holds a row with the name of a staged one.
C22_Witness ==
    \E r \in Refreshers :
        /\ pc[r] = "InsertBatch"
        /\ tx[r].i = 3
        /\ Cardinality(tx[r].temp_countries) = 2
        /\ \E t \in tx[r].temp_countries : t.Name = rowsToInsert[r][3].Name
        /\ countriesList[r][1].Name # countriesList[r][3].Name

\* The results on a channel that came from one source.
SentBy(ch, url) == {i \in DOMAIN ch : ch[i].URL = url}

\* C23: the fan-out of a refresh always ends. While the handler waits, each
\* source's fetch is either still running or has sent exactly one result,
\* and a running fetch can always send: the channel never holds more than
\* its capacity of two. The handler leaves the wait only when both fetches
\* are done, it then finds exactly two results, one per source, and takes
\* them all; outside the wait no fetch is running and no result is left.
\* Every wait is left.
C23_FanOutTerminates ==
    /\ [](\A r \in Refreshers :
            /\ pc[r] = "wg.Wait" =>
                /\ Len(resultChan[r]) <= resultChanCap
                /\ \A url \in {countriesURL, ratesURL} :
                    /\ Cardinality(SentBy(resultChan[r], url)) =
                        (IF url \in running[r] THEN 0 ELSE 1)
                    /\ url \in running[r] => CanSend(resultChan[r])
            /\ pc[r] # "wg.Wait" => running[r] = {} /\ resultChan[r] = <<>>)
    /\ [][\A r \in Refreshers :
            /\ running'[r] # running[r] /\ pc[r] = "wg.Wait" =>
                \E url \in running[r] :
                    /\ running'[r] = running[r] \ {url}
                    /\ Len(resultChan'[r]) = Len(resultChan[r]) + 1
                    /\ resultChan'[r][Len(resultChan'[r])].URL = url
                    /\ pc'[r] = "wg.Wait"
            /\ pc[r] = "wg.Wait" /\ pc'[r] # "wg.Wait" =>
                /\ running[r] = {}
                /\ Len(resultChan[r]) = 2
                /\ resultChan[r][1].URL # resultChan[r][2].URL
                /\ resultChan'[r] = <<>>]_vars
    /\ \A r \in Refreshers : (pc[r] = "wg.Wait") ~> (pc[r] # "wg.Wait")

\* Both fetches of a request are done, the rates result sent first, one a
\* read error and one a body, while the other request's fetches are both
\* still running.
C23_Witness ==
    /\ pc["h1"] = "wg.Wait"
    /\ running["h1"] = {}
    /\ Len(resultChan["h1"]) = 2
    /\ resultChan["h1"][1].URL = ratesURL
    /\ resultChan["h1"][1].Err = "failed to read body"
    /\ resultChan["h1"][2].Err = "nil"
    /\ pc["h2"] = "wg.Wait"
    /\ running["h2"] = {countriesURL, ratesURL}

====
